---- MODULE Spec2Model ----
(***************************************************************************)
(* Model of the CTI collection core: the indicator store                   *)
(* (database.py, CTIDatabase), the feed fetchers (api_ingestion.py) and    *)
(* the collection orchestrator (scheduler.py, CTIScheduler).               *)
(*                                                                         *)
(* The SQLite connection is modelled by two copies of each table: the      *)
(* connection's view (iocs, logs), which sees its own uncommitted writes,  *)
(* and the committed database file (disk_iocs, disk_logs), which is what a *)
(* restart or another connection sees.  conn.commit() copies the first to  *)
(* the second.                                                             *)
(***************************************************************************)
EXTENDS Integers, Sequences, FiniteSets, TLC

VARIABLES
    iocs,               \* table iocs as seen through self.conn (set of rows)
    logs,               \* table collection_logs as seen through self.conn (sequence of rows)
    disk_iocs,          \* committed content of table iocs
    disk_logs,          \* committed content of table collection_logs
    now,                \* the wall clock, <<second, microsecond>>
    pc,                 \* "idle", "fetch", "upsert", "log", "crashed"
    caller,             \* who called insert_or_update_iocs: "direct" or "cycle"
    batch,              \* argument iocs of the running / last insert_or_update_iocs
    idx,                \* index of the next record of batch to process
    stats,              \* stats dict of the running / last insert_or_update_iocs
    outcome,            \* how the last insert_or_update_iocs ended: "none", "returned", "raised"
    feed_i,             \* index in Feeds of the next feed to fetch
    feed_out,           \* what each feed fetched so far in this cycle answered
    all_iocs,           \* run_collection's local list all_iocs
    collection_errors,  \* run_collection's local list collection_errors
    result,             \* return value of the last run_collection
    used,               \* records handed to the program so far (bounded by MaxRecords)
    iocs_before,        \* history: table iocs as it was when the running / last insert_or_update_iocs was called
    observed,           \* history: <<indicator, type, date_collected>> of every record an upsert wrote
    disk_observed,      \* history: the part of observed whose writes are committed
    last_raw,           \* argument of the last direct call of detect_type or normalize_ioc
    last_detected,      \* what the last direct call of detect_type returned
    last_normalized,    \* what the last direct call of normalize_ioc returned
    sched,              \* where start_scheduling stands: "off", "initial", "loop", "job", "stopped"
    due,                \* whether the daily job's next run time has come
    returned            \* history: sums of the new and updated counts of every stats dict insert_or_update_iocs returned

vars == <<iocs, logs, disk_iocs, disk_logs, now, pc, caller, batch, idx, stats,
          outcome, feed_i, feed_out, all_iocs, collection_errors, result, used,
          iocs_before, observed, disk_observed, last_raw, last_detected, last_normalized,
          sched, due, returned>>

-----------------------------------------------------------------------------
(* Bounds *)

\* Total number of records handed to the program over a run (direct batches
\* and feed items together).
MaxRecords == 3

-----------------------------------------------------------------------------
(* Time and its text form *)

\* Instants <<second, microsecond>> within one minute.
Times == {<<0, 0>>, <<0, 5>>, <<1, 0>>}

TimeLeq(a, b) == a[1] < b[1] \/ (a[1] = b[1] /\ a[2] <= b[2])

\* The instants the clock may show when read after showing t.
Later(t) == {u \in Times : TimeLeq(t, u)}

MaxTime(S) == CHOOSE t \in S : \A u \in S : TimeLeq(u, t)

\* n as w decimal digits (character codes), zero padded.
RECURSIVE Digits(_, _)
Digits(n, w) == IF w = 0 THEN <<>> ELSE Digits(n \div 10, w - 1) \o <<48 + (n % 10)>>

\* datetime.isoformat(): "YYYY-MM-DDTHH:MM:SS" and, only when the microsecond
\* is not 0, ".ffffff".  The date, hour and minute are the same for all
\* instants of Times and are left out; the text is a sequence of character codes.
isoformat(t) ==
    Digits(t[1], 2) \o (IF t[2] = 0 THEN <<>> ELSE <<46>> \o Digits(t[2], 6))

\* Python's str < str: lexicographic by code point, a proper prefix is smaller.
RECURSIVE str_lt(_, _)
str_lt(a, b) ==
    IF b = <<>> THEN FALSE
    ELSE IF a = <<>> THEN TRUE
    ELSE IF Head(a) # Head(b) THEN Head(a) < Head(b)
    ELSE str_lt(Tail(a), Tail(b))

\* A wrong max: the smaller of the two.
py_min(a, b) == IF str_lt(b, a) THEN b ELSE a

\* Python's max(a, b) on two str: b only if b > a.
py_max(a, b) == IF str_lt(a, b) THEN b ELSE a

\* SQLite's CURRENT_TIMESTAMP has a resolution of one second.
CURRENT_TIMESTAMP(clk) == clk[1]

-----------------------------------------------------------------------------
(* Text: a str is a sequence of characters, each a one-character string *)

ascii_uppercase == <<"A", "B", "C", "D", "E", "F", "G", "H", "I", "J", "K", "L", "M",
                     "N", "O", "P", "Q", "R", "S", "T", "U", "V", "W", "X", "Y", "Z">>

ascii_lowercase == <<"a", "b", "c", "d", "e", "f", "g", "h", "i", "j", "k", "l", "m",
                     "n", "o", "p", "q", "r", "s", "t", "u", "v", "w", "x", "y", "z">>

\* The hexadecimal digits in the order of their values.
HexDigits == <<"0", "1", "2", "3", "4", "5", "6", "7", "8", "9",
               "a", "b", "c", "d", "e", "f">>

\* A lone surrogate code point, which json.loads accepts ("\ud800") and
\* UTF-8 cannot encode.
Surrogate == "U+D800"

InSeq(seq, c) == \E i \in 1..Len(seq) : seq[i] = c

IndexOf(seq, c) == CHOOSE i \in 1..Len(seq) : seq[i] = c

isdigit(c) == InSeq(SubSeq(HexDigits, 1, 10), c)

isalpha(c) == InSeq(ascii_uppercase, c) \/ InSeq(ascii_lowercase, c)

\* str.lower()
lower_char(c) == IF InSeq(ascii_uppercase, c) THEN ascii_lowercase[IndexOf(ascii_uppercase, c)] ELSE c
lower(s) == [i \in 1..Len(s) |-> lower_char(s[i])]

\* The characters str.strip() removes.
Whitespace == {" ", "\t", "\n", "\r"}

RECURSIVE lstrip(_)
lstrip(s) == IF s # <<>> /\ Head(s) \in Whitespace THEN lstrip(Tail(s)) ELSE s

RECURSIVE rstrip(_)
rstrip(s) ==
    IF s # <<>> /\ s[Len(s)] \in Whitespace THEN rstrip(SubSeq(s, 1, Len(s) - 1)) ELSE s

\* str.strip()
strip(s) == rstrip(lstrip(s))

\* str.startswith(prefix)
startswith(s, prefix) == Len(s) >= Len(prefix) /\ SubSeq(s, 1, Len(prefix)) = prefix

\* c in s
contains(s, c) == \E i \in 1..Len(s) : s[i] = c

\* The index of the first c in s.
find(s, c) == CHOOSE i \in 1..Len(s) : s[i] = c /\ \A j \in 1..(i - 1) : s[j] # c

\* str.split(c)
RECURSIVE split(_, _)
split(s, c) ==
    IF ~contains(s, c) THEN <<s>>
    ELSE <<SubSeq(s, 1, find(s, c) - 1)>> \o split(SubSeq(s, find(s, c) + 1, Len(s)), c)

\* c.join(parts)
RECURSIVE join_text(_, _)
join_text(parts, c) ==
    IF parts = <<>> THEN <<>>
    ELSE IF Len(parts) = 1 THEN parts[1]
    ELSE parts[1] \o <<c>> \o join_text(Tail(parts), c)

\* int(s, base) for a text of digits of that base.
RECURSIVE to_int(_, _)
to_int(s, base) ==
    IF s = <<>> THEN 0
    ELSE to_int(SubSeq(s, 1, Len(s) - 1), base) * base
         + (IndexOf(HexDigits, lower_char(s[Len(s)])) - 1)

\* '%d' % n and '%x' % n
RECURSIVE to_text(_, _)
to_text(n, base) ==
    IF n < base THEN <<HexDigits[n + 1]>>
    ELSE to_text(n \div base, base) \o <<HexDigits[(n % base) + 1]>>

\* n copies of the character c.
Rep(c, n) == [i \in 1..n |-> c]

-----------------------------------------------------------------------------
(* ipaddress.ip_address *)

\* IPv4Address._parse_octet accepts the text.
valid_octet(o) ==
    /\ o # <<>>
    /\ \A i \in 1..Len(o) : isdigit(o[i])
    /\ Len(o) <= 3
    /\ o = <<"0">> \/ o[1] # "0"
    /\ to_int(o, 10) <= 255

\* The four texts are octets.
valid_octets(octets) == Len(octets) = 4 /\ \A i \in 1..4 : valid_octet(octets[i])

\* IPv4Address(s) does not raise.
is_ipv4(s) == s # <<>> /\ valid_octets(split(s, "."))

\* '.'.join of the octets' values in decimal.
octets_str(octets) == join_text([i \in 1..4 |-> to_text(to_int(octets[i], 10), 10)], ".")

\* str(IPv4Address(s))
ipv4_str(s) == octets_str(split(s, "."))

\* IPv6Address._parse_hextet accepts the text.
valid_hextet(h) ==
    /\ h # <<>>
    /\ \A i \in 1..Len(h) : InSeq(HexDigits, lower_char(h[i]))
    /\ Len(h) <= 4

\* str.partition('%') at index i: the text before it, and "%" with the scope
\* id after it, which must not be empty nor hold another '%'.
scope_at(s, i) ==
    [ok |-> i < Len(s) /\ ~contains(SubSeq(s, i + 1, Len(s)), "%"),
     addr |-> SubSeq(s, 1, i - 1), scope |-> SubSeq(s, i, Len(s))]

\* IPv6Address._split_scope_id
split_scope_id(s) ==
    IF ~contains(s, "%") THEN [ok |-> TRUE, addr |-> s, scope |-> <<>>]
    ELSE scope_at(s, find(s, "%"))

\* The two hextets, in hexadecimal, of an IPv4-style suffix with octets o.
suffix_hextets(o) ==
    <<to_text(to_int(o[1], 10) * 256 + to_int(o[2], 10), 16),
      to_text(to_int(o[3], 10) * 256 + to_int(o[4], 10), 16)>>

\* The parts p between the colons, an IPv4-style suffix replaced by its two
\* hextets; not ok with less than three parts or a suffix that is no IPv4 address.
with_suffix(p) ==
    IF Len(p) >= 3 /\ contains(p[Len(p)], ".")
    THEN IF is_ipv4(p[Len(p)])
         THEN [ok |-> TRUE,
               parts |-> SubSeq(p, 1, Len(p) - 1) \o suffix_hextets(split(p[Len(p)], "."))]
         ELSE [ok |-> FALSE, parts |-> p]
    ELSE [ok |-> Len(p) >= 3, parts |-> p]

\* The indexes, the endpoints aside, of the empty parts: each is a '::'.
skip_indexes(p) == {i \in 2..(Len(p) - 1) : p[i] = <<>>}

\* The eight hextets of parts p with '::' at index k, hi parts before it and
\* lo parts after it, or <<>>.
hextets_around(p, k, hi, lo) ==
    IF \/ (p[1] = <<>> /\ hi # 0)
       \/ (p[Len(p)] = <<>> /\ lo # 0)
       \/ 8 - (hi + lo) < 1
       \/ (\E i \in 1..hi : ~valid_hextet(p[i]))
       \/ (\E i \in 1..lo : ~valid_hextet(p[Len(p) - lo + i]))
    THEN <<>>
    ELSE [i \in 1..hi |-> to_int(p[i], 16)]
         \o [i \in 1..(8 - (hi + lo)) |-> 0]
         \o [i \in 1..lo |-> to_int(p[Len(p) - lo + i], 16)]

\* The eight hextets of parts p, or <<>>.
hextets_of(p) ==
    IF Len(p) > 9 \/ Cardinality(skip_indexes(p)) > 1 THEN <<>>
    ELSE IF skip_indexes(p) # {}
    THEN hextets_around(p, CHOOSE k \in skip_indexes(p) : TRUE,
                        (CHOOSE k \in skip_indexes(p) : TRUE)
                           - (IF p[1] = <<>> THEN 2 ELSE 1),
                        Len(p) - (CHOOSE k \in skip_indexes(p) : TRUE)
                           - (IF p[Len(p)] = <<>> THEN 1 ELSE 0))
    ELSE IF Len(p) # 8 \/ (\E i \in 1..8 : ~valid_hextet(p[i])) THEN <<>>
    ELSE [i \in 1..8 |-> to_int(p[i], 16)]

\* with_suffix(p), then hextets_of.
hextets_if_ok(pp) == IF pp.ok THEN hextets_of(pp.parts) ELSE <<>>

\* IPv6Address._ip_int_from_string: the eight hextets of the address, or <<>>
\* when the text is not an IPv6 address.
ipv6_hextets(addr) ==
    IF addr = <<>> THEN <<>> ELSE hextets_if_ok(with_suffix(split(addr, ":")))

\* The address of the text with its scope id split off.
scoped_hextets(sc) == IF sc.ok THEN ipv6_hextets(sc.addr) ELSE <<>>

\* IPv6Address(s) does not raise.
is_ipv6(s) == ~contains(s, "/") /\ scoped_hextets(split_scope_id(s)) # <<>>

\* The length of the run of zero hextets that starts at index i.
RECURSIVE zero_run(_, _)
zero_run(h, i) == IF i > Len(h) \/ h[i] # 0 THEN 0 ELSE 1 + zero_run(h, i + 1)

\* The length of the longest run of zero hextets.
longest_run(h) ==
    CHOOSE m \in 0..8 :
       (\E i \in 1..8 : zero_run(h, i) = m) /\ (\A i \in 1..8 : zero_run(h, i) <= m)

\* The index where the first run of m zero hextets starts.
run_start(h, m) ==
    CHOOSE i \in 1..8 : zero_run(h, i) = m /\ \A j \in 1..(i - 1) : zero_run(h, j) < m

\* ':'.join of the hextets a to b in hexadecimal.
hextets_str(h, a, b) ==
    join_text([i \in 1..(b - a + 1) |-> to_text(h[a + i - 1], 16)], ":")

\* The hextets with the run of m zeros that starts at index a written "::".
compressed(h, a, m) ==
    hextets_str(h, 1, a - 1) \o <<":", ":">> \o hextets_str(h, a + m, 8)

\* IPv6Address._string_from_ip_int: lower-case hextets without leading zeros,
\* the first longest run of two or more zero hextets compressed.
string_from_hextets(h) ==
    IF longest_run(h) > 1
    THEN compressed(h, run_start(h, longest_run(h)), longest_run(h))
    ELSE hextets_str(h, 1, 8)

\* str(IPv6Address(s)): the address, then the scope id.
scoped_str(sc) == string_from_hextets(ipv6_hextets(sc.addr)) \o sc.scope

ipv6_str(s) == scoped_str(split_scope_id(s))

\* ipaddress.ip_address(s) does not raise ValueError.
ip_address_ok(s) == is_ipv4(s) \/ is_ipv6(s)

\* str(ipaddress.ip_address(s))
ip_address_str(s) == IF is_ipv4(s) THEN ipv4_str(s) ELSE ipv6_str(s)

-----------------------------------------------------------------------------
(* normalization.py, IoCNormalizer *)

\* The lengths of the three hash_patterns: md5, sha1, sha256.
hash_patterns == {32, 40, 64}

is_ip(value) == ip_address_ok(strip(value))

is_hash(value) ==
    LET v == strip(value)
    IN  /\ Len(v) \in hash_patterns
        /\ \A i \in 1..Len(v) : InSeq(HexDigits, lower_char(v[i]))

is_url(value) ==
    LET v == strip(value)
    IN  \/ startswith(v, <<"h", "t", "t", "p", ":", "/", "/">>)
        \/ startswith(v, <<"h", "t", "t", "p", "s", ":", "/", "/">>)

is_domain(value) ==
    LET v == strip(value)
    IN  IF is_url(v) \/ is_ip(v) THEN FALSE
        ELSE contains(v, ".") /\ Len(v) <= 253 /\ ~startswith(v, <<".">>)

\* [a-zA-Z0-9._%+-]
local_char(c) == isalpha(c) \/ isdigit(c) \/ c \in {".", "_", "%", "+", "-"}

\* [a-zA-Z0-9.-]
domain_char(c) == isalpha(c) \/ isdigit(c) \/ c \in {".", "-"}

\* The text v, with its first '@' at index at, matches
\* ^[a-zA-Z0-9._%+-]+@[a-zA-Z0-9.-]+\.[a-zA-Z]{2,}$
email_match(v, at) ==
    /\ at > 1
    /\ \A i \in 1..(at - 1) : local_char(v[i])
    /\ \E dot \in (at + 2)..(Len(v) - 2) :
          /\ v[dot] = "."
          /\ \A i \in (at + 1)..(dot - 1) : domain_char(v[i])
          /\ \A i \in (dot + 1)..Len(v) : isalpha(v[i])

is_email(value) ==
    contains(strip(value), "@") /\ email_match(strip(value), find(strip(value), "@"))

\* A detect_type that tests Domain before Email.
detect_type_domain_first(value) ==
    IF value = <<>> THEN "Unknown"
    ELSE IF is_ip(value) THEN "IP"
    ELSE IF is_hash(value) THEN "Hash"
    ELSE IF is_url(value) THEN "URL"
    ELSE IF is_domain(value) THEN "Domain"
    ELSE IF is_email(value) THEN "Email"
    ELSE "Unknown"

detect_type(value) ==
    IF value = <<>> THEN "Unknown"
    ELSE IF is_ip(value) THEN "IP"
    ELSE IF is_hash(value) THEN "Hash"
    ELSE IF is_url(value) THEN "URL"
    ELSE IF is_email(value) THEN "Email"
    ELSE IF is_domain(value) THEN "Domain"
    ELSE "Unknown"

normalize_indicator(indicator) ==
    LET v == strip(indicator)
    IN  IF is_url(v) THEN lower(v)
        ELSE IF is_domain(v) THEN lower(v)
        ELSE IF is_hash(v) THEN lower(v)
        ELSE IF is_ip(v) THEN ip_address_str(v)
        ELSE v

-----------------------------------------------------------------------------
(* Records handed to the store *)

\* Marks a key that the dict does not have.
MISSING == "<missing>"

\* The same for a key whose value is a text.
MISSING_TEXT == <<MISSING>>

\* "198.51.100.7" and "evil.example"
Keys == {<<<<"1", "9", "8", ".", "5", "1", ".", "1", "0", "0", ".", "7">>, "IP">>,
         <<<<"e", "v", "i", "l", ".", "e", "x", "a", "m", "p", "l", "e">>, "Domain">>}

\* dict.get(key, default)
Get(d, k, default) == IF d[k] = MISSING THEN default ELSE d[k]

\* Metadata values: "{}" is the empty dict, "{domain}" a dict of strings,
\* "{set}" a dict holding a Python set, which json cannot serialize.
Serializable(m) == m # "{set}"

\* json.dumps(m), for serializable m.
json_dumps(m) == IF m = "{}" THEN "{}" ELSE "{\"domain\": \"d\"}"

\* json.loads(s)
json_loads(s) == IF s = "{}" THEN "{}" ELSE "{domain}"

IoC(k, src, conf, threat, meta, t) ==
    [indicator |-> k[1], type |-> k[2], source |-> src, confidence |-> conf,
     threat_level |-> threat, metadata |-> meta, date_collected |-> isoformat(t)]

\* validate_ioc: the dict has the keys indicator, type and source; their
\* values are not looked at.
validate_ioc(ioc) ==
    ioc.indicator # MISSING_TEXT /\ ioc.type # MISSING /\ ioc.source # MISSING

\* The records a direct caller of insert_or_update_iocs may pass: for every
\* key one observation per instant, the middle one a dict with only the
\* required keys, the others full dicts.
GoodRecords ==
    {IF t = <<0, 5>>
        THEN IoC(k, "TestFeed", MISSING, MISSING, MISSING, t)
        ELSE IoC(k, "OTX", "high", "medium", "{domain}", t) : k \in Keys, t \in Times}

BadMetadataRecords ==
    {IoC(<<<<"1", "9", "8", ".", "5", "1", ".", "1", "0", "0", ".", "7">>, "IP">>, "TestFeed", "low", "low", "{set}", <<1, 0>>)}

NoIndicatorRecords ==
    {IoC(<<MISSING_TEXT, "IP">>, "TestFeed", "low", "low", "{}", <<1, 0>>)}

Records == GoodRecords \cup BadMetadataRecords \cup NoIndicatorRecords

RECURSIVE SeqsUpTo(_, _)
SeqsUpTo(S, n) ==
    IF n = 0 THEN {<<>>}
    ELSE LET shorter == SeqsUpTo(S, n - 1)
         IN shorter \cup {Append(s, x) : s \in {q \in shorter : Len(q) = n - 1}, x \in S}

-----------------------------------------------------------------------------
(* Table iocs *)

\* SELECT ... FROM iocs WHERE indicator=? AND type=?
select_ioc(tbl, ind, typ) == {r \in tbl : r.indicator = ind /\ r.type = typ}

\* INSERT INTO iocs raises IntegrityError when a row with the same primary
\* key (indicator, type) exists.
insert_violates_pk(tbl, ioc) ==
    \E r \in tbl : r.indicator = ioc.indicator /\ r.type = ioc.type

\* UPDATE iocs SET ... WHERE indicator=? AND type=?
update_ioc(tbl, ind, typ, last, cnt, src, conf, threat, meta) ==
    {IF r.indicator = ind /\ r.type = typ
        THEN [r EXCEPT !.last_seen = last, !.seen_count = cnt, !.source = src,
                       !.confidence = conf, !.threat_level = threat, !.metadata = meta]
        ELSE r : r \in tbl}

ZeroStats == [processed |-> 0, new |-> 0, updated |-> 0, errors |-> 0]

-----------------------------------------------------------------------------
(* insert_or_update_iocs, one record *)

\* sqlite3 binds a str parameter as UTF-8: UnicodeEncodeError on a lone surrogate.
encodable(text) == ~contains(text, Surrogate)

\* The SELECT of line 70 reads ioc['indicator']: KeyError when the key is
\* missing; its execute raises when the indicator cannot be bound.
raises_on_select(ioc) == ioc.indicator = MISSING_TEXT \/ ~encodable(ioc.indicator)

\* json.dumps(ioc.get('metadata', {})) raises TypeError on a value json cannot serialize.
raises_on_write(ioc) == ~Serializable(Get(ioc, "metadata", "{}"))

\* A handler whose log line also fails on an indicator it cannot encode.
handler_raises_on_encoding(ioc) ==
    ioc.indicator = MISSING_TEXT \/ ~encodable(ioc.indicator)

\* The handler's log line formats ioc['indicator'] again: with the key missing
\* the KeyError is raised inside the handler and leaves insert_or_update_iocs.
handler_raises(ioc) == ioc.indicator = MISSING_TEXT

\* A handler that forgets to count the error.
on_exception_uncounted(tbl, st, ioc) ==
    [iocs |-> tbl, stats |-> st,
     raised |-> handler_raises(ioc), wrote |-> FALSE, inserted |-> FALSE]

\* except Exception: stats['errors'] += 1, then the log line.
on_exception(tbl, st, ioc) ==
    [iocs |-> tbl, stats |-> [st EXCEPT !.errors = @ + 1],
     raised |-> handler_raises(ioc), wrote |-> FALSE, inserted |-> FALSE]

\* The row of a new IoC; created_at is the column default.
insert_new(tbl, ioc, clk) ==
    tbl \cup {[indicator |-> ioc.indicator, type |-> ioc.type, source |-> ioc.source,
               first_seen |-> ioc.date_collected, last_seen |-> ioc.date_collected,
               seen_count |-> 1,
               confidence |-> Get(ioc, "confidence", "medium"),
               threat_level |-> Get(ioc, "threat_level", "medium"),
               metadata |-> json_dumps(Get(ioc, "metadata", "{}")),
               created_at |-> CURRENT_TIMESTAMP(clk)]}

\* Wrong updates of an existing IoC, each a slip the code could have made.
\* last_seen becomes the smaller of the two timestamps.
update_existing_min(tbl, row, ioc) ==
    update_ioc(tbl, ioc.indicator, ioc.type,
               py_min(row.last_seen, ioc.date_collected), row.seen_count + 1,
               ioc.source, Get(ioc, "confidence", "medium"),
               Get(ioc, "threat_level", "medium"),
               json_dumps(Get(ioc, "metadata", "{}")))

\* seen_count grows only when the timestamp advances.
update_existing_count_if_newer(tbl, row, ioc) ==
    update_ioc(tbl, ioc.indicator, ioc.type,
               py_max(row.last_seen, ioc.date_collected),
               IF str_lt(row.last_seen, ioc.date_collected)
                  THEN row.seen_count + 1 ELSE row.seen_count,
               ioc.source, Get(ioc, "confidence", "medium"),
               Get(ioc, "threat_level", "medium"),
               json_dumps(Get(ioc, "metadata", "{}")))

\* last_seen is overwritten with the new timestamp.
update_existing_overwrite_last(tbl, row, ioc) ==
    update_ioc(tbl, ioc.indicator, ioc.type,
               ioc.date_collected, row.seen_count + 1,
               ioc.source, Get(ioc, "confidence", "medium"),
               Get(ioc, "threat_level", "medium"),
               json_dumps(Get(ioc, "metadata", "{}")))

\* first_seen follows an observation with an earlier timestamp.
update_existing_earliest_first(tbl, row, ioc) ==
    {IF r.indicator = ioc.indicator /\ r.type = ioc.type
        THEN [r EXCEPT !.first_seen = py_min(r.first_seen, ioc.date_collected)]
        ELSE r :
     r \in update_ioc(tbl, ioc.indicator, ioc.type,
                      py_max(row.last_seen, ioc.date_collected), row.seen_count + 1,
                      ioc.source, Get(ioc, "confidence", "medium"),
                      Get(ioc, "threat_level", "medium"),
                      json_dumps(Get(ioc, "metadata", "{}")))}

\* source, confidence, threat_level and metadata are overwritten only by an
\* observation that is not older than last_seen.
update_existing_fields_if_newer(tbl, row, ioc) ==
    IF str_lt(ioc.date_collected, row.last_seen)
    THEN {IF r.indicator = ioc.indicator /\ r.type = ioc.type
             THEN [r EXCEPT !.seen_count = row.seen_count + 1] ELSE r : r \in tbl}
    ELSE update_ioc(tbl, ioc.indicator, ioc.type,
                    py_max(row.last_seen, ioc.date_collected), row.seen_count + 1,
                    ioc.source, Get(ioc, "confidence", "medium"),
                    Get(ioc, "threat_level", "medium"),
                    json_dumps(Get(ioc, "metadata", "{}")))

\* The update of an existing IoC, row being the fetched one.
update_existing(tbl, row, ioc) ==
    update_ioc(tbl, ioc.indicator, ioc.type,
               py_max(row.last_seen, ioc.date_collected), row.seen_count + 1,
               ioc.source, Get(ioc, "confidence", "medium"),
               Get(ioc, "threat_level", "medium"),
               json_dumps(Get(ioc, "metadata", "{}")))

\* A loop body whose UPDATE is split in two: last_seen and seen_count are
\* written before the metadata is serialized, so a record with metadata json
\* cannot serialize touches the existing row and then raises.
upsert_one_counts_before_dumps(tbl, st, ioc, clk) ==
    LET st1 == [st EXCEPT !.processed = @ + 1]
    IN  IF raises_on_select(ioc) THEN on_exception(tbl, st1, ioc)
        ELSE LET rows == select_ioc(tbl, ioc.indicator, ioc.type)
             IN  IF rows = {}
                 THEN IF raises_on_write(ioc) \/ insert_violates_pk(tbl, ioc)
                      THEN on_exception(tbl, st1, ioc)
                      ELSE [iocs |-> insert_new(tbl, ioc, clk),
                            stats |-> [st1 EXCEPT !.new = @ + 1],
                            raised |-> FALSE, wrote |-> TRUE, inserted |-> TRUE]
                 ELSE IF raises_on_write(ioc)
                      THEN on_exception(
                               {IF r \in rows
                                   THEN [r EXCEPT !.seen_count = @ + 1,
                                                  !.last_seen = py_max(@, ioc.date_collected)]
                                   ELSE r : r \in tbl},
                               st1, ioc)
                      ELSE [iocs |-> update_existing(tbl, CHOOSE r \in rows : TRUE, ioc),
                            stats |-> [st1 EXCEPT !.updated = @ + 1],
                            raised |-> FALSE, wrote |-> TRUE, inserted |-> FALSE]

\* The body of the for loop for one record: the table and the stats after it,
\* whether an exception left the function, whether a row was written and
\* whether it was inserted (which reads the clock for created_at).
upsert_one(tbl, st, ioc, clk) ==
    LET st1 == [st EXCEPT !.processed = @ + 1]
    IN  IF raises_on_select(ioc) THEN on_exception(tbl, st1, ioc)
        ELSE LET rows == select_ioc(tbl, ioc.indicator, ioc.type)
             IN  IF rows = {}
                 THEN IF raises_on_write(ioc) \/ insert_violates_pk(tbl, ioc)
                      THEN on_exception(tbl, st1, ioc)
                      ELSE [iocs |-> insert_new(tbl, ioc, clk),
                            stats |-> [st1 EXCEPT !.new = @ + 1],
                            raised |-> FALSE, wrote |-> TRUE, inserted |-> TRUE]
                 ELSE IF raises_on_write(ioc) THEN on_exception(tbl, st1, ioc)
                      ELSE [iocs |-> update_existing(tbl, CHOOSE r \in rows : TRUE, ioc),
                            stats |-> [st1 EXCEPT !.updated = @ + 1],
                            raised |-> FALSE, wrote |-> TRUE, inserted |-> FALSE]

\* A commit inside the loop, after every record.
commit_inside_loop == TRUE

\* conn.commit() runs once, after the loop (line 115): no record step commits.
commit_after_record == FALSE

-----------------------------------------------------------------------------
(* Table collection_logs *)

\* An Optional[str]: None, or a text (a sequence of pieces).
None == [none |-> TRUE, text |-> <<>>]
Str(text) == [none |-> FALSE, text |-> text]

\* A test for None only: the empty text counts as a summary.
is_not_None(s) == ~s.none

\* Python's truth value of an Optional[str]: None and "" are false.
truthy(s) == ~s.none /\ s.text # <<>>

\* "; ".join(msgs)
RECURSIVE join(_)
join(msgs) ==
    IF msgs = <<>> THEN <<>>
    ELSE IF Len(msgs) = 1 THEN msgs[1]
    ELSE msgs[1] \o <<"; ">> \o join(Tail(msgs))

\* log_collection: the row it inserts into collection_logs.
log_collection(tbl, source, st, errors, clk) ==
    Append(tbl, [source |-> source, collection_time |-> isoformat(clk),
                 iocs_processed |-> st.processed, iocs_new |-> st.new,
                 iocs_updated |-> st.updated, errors |-> errors,
                 status |-> IF ~truthy(errors) THEN "success" ELSE "error"])

-----------------------------------------------------------------------------
(* Raw indicator values *)

\* The raw values given to detect_type and normalize_ioc, before padding:
\* IPv4 and IPv6 addresses, an octet with a leading zero, URLs (one with the
\* prefix in upper case, one with a lone surrogate), email addresses, domain
\* names, words, the empty text, texts of hash lengths (all digits, upper
\* case hex, not hex), of other lengths, and a dotted text of 254 characters.
Cores ==
    {<<"1", "9", "8", ".", "5", "1", ".", "1", "0", "0", ".", "7">>,
     <<"1", "9", "8", ".", "0", "5", "1", ".", "1", "0", "0", ".", "7">>,
     <<"2", "0", "0", "1", ":", "D", "B", "8", ":", "0", ":", "0", ":", "1", ":",
       "0", ":", "0", ":", "1">>,
     <<"H", "T", "T", "P", ":", "/", "/", "E", "x", "a", "m", "p", "l", "e", ".",
       "C", "O", "M", "/", "P", "a", "t", "h">>,
     <<"h", "t", "t", "p", "s", ":", "/", "/", "E", "v", "i", "l", ".", "E", "x",
       "a", "m", "p", "l", "e", "/", "A">>,
     <<"h", "t", "t", "p", ":", "/", "/", "x", "/", Surrogate>>,
     <<"U", "s", "e", "r", "@", "E", "x", "a", "m", "p", "l", "e", ".", "C", "O",
       "M">>,
     <<".", "A", "@", "b", ".", "c", "o">>,
     <<"a", "@", "b", ".", "c">>,
     <<"E", "v", "i", "l", ".", "E", "x", "a", "m", "p", "l", "e">>,
     <<"e", "v", "i", "l", ".", "e", "x", "a", "m", "p", "l", "e">>,
     <<".", "A", "B", "C">>,
     <<"R", "e", "a", "d", "m", "e">>,
     <<>>,
     Rep("1", 32), Rep("A", 40), Rep("A", 64), Rep("G", 32), Rep("a", 33),
     <<"A", ".">> \o Rep("b", 252)}

\* White space before and after a raw value.
PadsLeft == {<<>>, <<" ">>}
PadsRight == {<<>>, <<" ">>, <<"\n">>}

RawInputs == {l \o c \o r : l \in PadsLeft, c \in Cores, r \in PadsRight}

-----------------------------------------------------------------------------
(* Feeds *)

\* The fetches of one run_collection, in order: fetch_otx for each domain of
\* config.THREAT_DOMAINS (its first here), fetch_abuseipdb, fetch_malwarebazaar.
Feeds == <<[fetcher |-> "OTX", domain |-> "urlhaus.abuse.ch"],
           [fetcher |-> "AbuseIPDB", domain |-> ""],
           [fetcher |-> "MalwareBazaar", domain |-> ""]>>

\* What a feed's answer may hold.  An entry is one item of the answer: for
\* OTX a url_list entry with its "url", for AbuseIPDB a data entry with its
\* "ipAddress" and "abuseConfidenceScore", for MalwareBazaar a line of the
\* text (score unused).  Here: "198.51.100.7" and 64 times "A".
Entries == {[raw |-> <<"1", "9", "8", ".", "5", "1", ".", "1", "0", "0", ".", "7">>, score |-> 100],
            [raw |-> Rep("A", 64), score |-> 50]}

\* The entry lists an answer may hold.
Bodies == {<<>>} \cup {<<e>> : e \in Entries} \cup {<<e, f>> : e, f \in Entries}

\* The answers of a feed to one request: a failure (network error, HTTP error
\* status, unparsable body, timeout) or a list of entries, at most n of them.
Responses(n) ==
    {[ok |-> FALSE, entries |-> <<>>]}
    \cup {[ok |-> TRUE, entries |-> es] : es \in {b \in Bodies : Len(b) <= n}}

\* Answers with garbage: a url of two blanks, a domain name in two spellings
\* ("Evil.Example", "evil.example "), a url with a lone surrogate.
RawEntries == {[raw |-> <<" ", " ">>, score |-> 50],
               [raw |-> <<"E", "v", "i", "l", ".", "E", "x", "a", "m", "p", "l", "e">>, score |-> 100],
               [raw |-> <<"e", "v", "i", "l", ".", "e", "x", "a", "m", "p", "l", "e", " ">>, score |-> 50],
               [raw |-> <<"h", "t", "t", "p", ":", "/", "/", "x", "/", Surrogate>>, score |-> 50]}

RawResponses(n) ==
    {[ok |-> FALSE, entries |-> <<>>]}
    \cup {[ok |-> TRUE, entries |-> es] :
             es \in {b \in {<<>>} \cup {<<e>> : e \in RawEntries} : Len(b) <= n}}

\* "HTTP://Example.COM/Path" and its canonical form
UpperCaseUrl ==
    <<"H", "T", "T", "P", ":", "/", "/", "E", "x", "a", "m", "p", "l", "e", ".",
      "C", "O", "M", "/", "P", "a", "t", "h">>
LowerCaseUrl ==
    <<"h", "t", "t", "p", ":", "/", "/", "e", "x", "a", "m", "p", "l", "e", ".",
      "c", "o", "m", "/", "p", "a", "t", "h">>

\* Answers whose values differ and have the same canonical form: a url and
\* a domain name, each in two spellings.
SameFormEntries == {[raw |-> UpperCaseUrl, score |-> 50],
                    [raw |-> LowerCaseUrl, score |-> 100],
                    [raw |-> <<"E", "v", "i", "l", ".", "E", "x", "a", "m", "p", "l", "e">>, score |-> 100],
                    [raw |-> <<"e", "v", "i", "l", ".", "e", "x", "a", "m", "p", "l", "e", " ">>, score |-> 50]}

SameFormResponses(n) ==
    {[ok |-> FALSE, entries |-> <<>>]}
    \cup {[ok |-> TRUE, entries |-> es] :
             es \in {b \in {<<>>} \cup {<<e>> : e \in SameFormEntries} : Len(b) <= n}}

\* config.MALWAREBazaar_LIMIT
MALWAREBazaar_LIMIT == 10000

\* Every raw value of the model, as received and as fetch_malwarebazaar
\* strips it.
RawValues ==
    LET given == RawInputs \cup {e.raw : e \in Entries \cup RawEntries \cup SameFormEntries}
    IN  given \cup {strip(r) : r \in given}

\* normalize_indicator and detect_type of every raw value, each computed once.
normalized_as == [raw \in RawValues |-> normalize_indicator(raw)]
detected_as == [value \in RawValues \cup {normalized_as[r] : r \in RawValues} |-> detect_type(value)]

\* A normalize_ioc that takes the type of the stripped raw value.
normalize_ioc_type_of_raw(raw_indicator, source, confidence, threat_level, metadata, clk) ==
    IoC(<<normalized_as[raw_indicator], detected_as[strip(raw_indicator)]>>,
        source, confidence, threat_level,
        IF metadata \in {MISSING, "{}"} THEN "{}" ELSE metadata, clk)

\* normalize_ioc; date_collected is _get_timestamp().
normalize_ioc(raw_indicator, source, confidence, threat_level, metadata, clk) ==
    LET normalized_indicator == normalized_as[raw_indicator]
        ioc_type == detected_as[normalized_indicator]
    IN  IoC(<<normalized_indicator, ioc_type>>, source, confidence, threat_level,
            IF metadata \in {MISSING, "{}"} THEN "{}" ELSE metadata, clk)

\* fetch_otx keeps the entries of url_list whose "url" is truthy.
otx_urls(entries) ==
    LET has_url(e) == e.raw # <<>>
    IN  SelectSeq(entries, has_url)

\* fetch_malwarebazaar keeps the lines that are 64 characters long once
\* stripped and do not start with "#", stripped, limit of them at most.
malwarebazaar_hashes(entries, limit) ==
    LET is_sha256_line(e) == Len(strip(e.raw)) = 64 /\ ~startswith(e.raw, <<"#">>)
        lines == SelectSeq(entries, is_sha256_line)
        hashes == [i \in 1..Len(lines) |-> [lines[i] EXCEPT !.raw = strip(@)]]
    IN  SubSeq(hashes, 1, IF Len(hashes) < limit THEN Len(hashes) ELSE limit)

\* fetch_otx: every exception is caught inside and [] returned.
fetch_otx(resp, clk) ==
    [raised |-> FALSE,
     iocs |-> IF ~resp.ok THEN <<>>
              ELSE LET urls == otx_urls(resp.entries)
                   IN  [i \in 1..Len(urls) |->
                           normalize_ioc(urls[i].raw, "OTX", "high", "medium",
                                         "{domain}", clk)]]

\* fetch_abuseipdb: every exception is caught inside and [] returned.
fetch_abuseipdb(resp, clk) ==
    [raised |-> FALSE,
     iocs |-> IF ~resp.ok THEN <<>>
              ELSE [i \in 1..Len(resp.entries) |->
                       normalize_ioc(resp.entries[i].raw, "AbuseIPDB", "high",
                                     IF resp.entries[i].score >= 75 THEN "high" ELSE "medium",
                                     "{domain}", clk)]]

\* fetch_malwarebazaar: every exception is caught inside and [] returned.
fetch_malwarebazaar(resp, clk) ==
    [raised |-> FALSE,
     iocs |-> IF ~resp.ok THEN <<>>
              ELSE LET hashes == malwarebazaar_hashes(resp.entries, MALWAREBazaar_LIMIT)
                   IN  [i \in 1..Len(hashes) |->
                           normalize_ioc(hashes[i].raw, "MalwareBazaar", "very_high",
                                         "high", "{}", clk)]]

fetch(feed, resp, clk) ==
    IF feed.fetcher = "OTX" THEN fetch_otx(resp, clk)
    ELSE IF feed.fetcher = "AbuseIPDB" THEN fetch_abuseipdb(resp, clk)
    ELSE fetch_malwarebazaar(resp, clk)

\* The error string run_collection records when a fetcher raises.
error_msg(feed) ==
    IF feed.fetcher = "OTX"
    THEN <<"OTX collection failed for ", feed.domain, ": ", "e">>
    ELSE <<feed.fetcher, " collection failed: ", "e">>

\* A try block that assigns the fetcher's list instead of extending all_iocs.
collect_overwrite(all, errs, feed, r) ==
    IF r.raised
    THEN [all_iocs |-> all, errors |-> Append(errs, error_msg(feed))]
    ELSE [all_iocs |-> r.iocs, errors |-> errs]

\* One try block of run_collection around a fetch: extend all_iocs with what
\* the fetcher returned, or on an exception append an error string.
collect(all, errs, feed, r) ==
    IF r.raised
    THEN [all_iocs |-> all, errors |-> Append(errs, error_msg(feed))]
    ELSE [all_iocs |-> all \o r.iocs, errors |-> errs]

\* A test that takes a list of one item for empty.
more_than_one(items) == Len(items) > 1

\* if all_iocs: (line 81), the truth value of a list.
has_items(items) == items # <<>>

\* A cycle that stores what it has after the first fetch.
first_feed_fetched(i) == i > 1

\* The try blocks of lines 31-78 are all passed when line 81 is reached:
\* i is the index of the next fetch.
all_feeds_fetched(i) == i > Len(Feeds)

-----------------------------------------------------------------------------
(* Initial state *)

\* No record: normalize_ioc was not called.
NoRecord == [indicator |-> MISSING_TEXT, type |-> MISSING, source |-> MISSING,
             confidence |-> MISSING, threat_level |-> MISSING, metadata |-> MISSING,
             date_collected |-> <<>>]

NoResult == [status |-> "none", stats |-> ZeroStats, errors |-> <<>>, total_collected |-> 0]

Init ==
    /\ iocs = {} /\ logs = <<>> /\ disk_iocs = {} /\ disk_logs = <<>>
    /\ now = <<0, 0>>
    /\ pc = "idle" /\ caller = "direct"
    /\ batch = <<>> /\ idx = 1 /\ stats = ZeroStats /\ outcome = "none"
    /\ feed_i = 1 /\ feed_out = <<>> /\ all_iocs = <<>> /\ collection_errors = <<>>
    /\ result = NoResult
    /\ used = 0
    /\ iocs_before = {} /\ observed = {} /\ disk_observed = {}
    /\ last_raw = <<>> /\ last_detected = "none" /\ last_normalized = NoRecord
    /\ sched = "off" /\ due = FALSE
    /\ returned = [new |-> 0, updated |-> 0]

cycle_vars == <<feed_i, feed_out, all_iocs, collection_errors, result>>

store_vars == <<iocs, logs, disk_iocs, disk_logs, pc, caller, batch, idx, stats,
                outcome, used, iocs_before, observed, disk_observed, returned>>

norm_vars == <<last_raw, last_detected, last_normalized>>

sched_vars == <<sched, due>>

-----------------------------------------------------------------------------
(* Actions *)

\* A caller passes a batch to insert_or_update_iocs (lines 62-63).
CallUpsert ==
    /\ pc = "idle"
    /\ \E b \in SeqsUpTo(Records, MaxRecords - used) :
          /\ batch' = b
          /\ used' = used + Len(b)
    /\ pc' = "upsert" /\ caller' = "direct"
    /\ idx' = 1 /\ stats' = ZeroStats /\ outcome' = "none"
    /\ feed_i' = 1 /\ feed_out' = <<>> /\ all_iocs' = <<>> /\ collection_errors' = <<>>
    /\ result' = NoResult
    /\ iocs_before' = iocs
    /\ UNCHANGED <<iocs, logs, disk_iocs, disk_logs, now, observed, disk_observed>>
    /\ UNCHANGED norm_vars
    /\ UNCHANGED sched_vars
    /\ UNCHANGED returned

\* One iteration of the for loop (lines 65-113).
UpsertRecord ==
    /\ pc = "upsert" /\ idx <= Len(batch)
    /\ \E t \in Later(now) :
       LET ioc == batch[idx]
           r == upsert_one(iocs, stats, ioc, t)
           obs == IF r.wrote
                  THEN observed \cup {<<ioc.indicator, ioc.type, ioc.date_collected>>}
                  ELSE observed
       IN  /\ iocs' = r.iocs
           /\ now' = IF r.inserted THEN t ELSE now
           /\ stats' = r.stats
           /\ observed' = obs
           /\ IF r.raised
              THEN /\ pc' = "idle" /\ outcome' = "raised" /\ idx' = idx
                   /\ result' = IF caller = "cycle"
                                THEN [NoResult EXCEPT !.status = "raised"]
                                ELSE result
                   /\ UNCHANGED <<disk_iocs, disk_logs, disk_observed>>
              ELSE /\ pc' = pc /\ outcome' = outcome /\ idx' = idx + 1
                   /\ result' = result
                   /\ IF commit_after_record
                      THEN disk_iocs' = r.iocs /\ disk_logs' = logs /\ disk_observed' = obs
                      ELSE UNCHANGED <<disk_iocs, disk_logs, disk_observed>>
    /\ UNCHANGED <<logs, caller, batch, used, iocs_before>>
    /\ UNCHANGED <<feed_i, feed_out, all_iocs, collection_errors>>
    /\ UNCHANGED norm_vars
    /\ UNCHANGED sched_vars
    /\ UNCHANGED returned

\* self.conn.commit() and return stats (lines 115-116).
CommitReturn ==
    /\ pc = "upsert" /\ idx > Len(batch)
    /\ disk_iocs' = iocs /\ disk_logs' = logs /\ disk_observed' = observed
    /\ outcome' = "returned"
    /\ pc' = IF caller = "direct" THEN "idle" ELSE "log"
    /\ returned' = [new |-> returned.new + stats.new,
                    updated |-> returned.updated + stats.updated]
    /\ UNCHANGED <<iocs, logs, now, caller, batch, idx, stats, used, iocs_before, observed>>
    /\ UNCHANGED cycle_vars
    /\ UNCHANGED norm_vars
    /\ UNCHANGED sched_vars

\* run_collection starts (lines 25-29).
run_collection_starts ==
    /\ pc = "idle" /\ used < MaxRecords
    /\ pc' = "fetch" /\ caller' = "cycle"
    /\ feed_i' = 1 /\ feed_out' = <<>> /\ all_iocs' = <<>> /\ collection_errors' = <<>>
    /\ result' = NoResult
    /\ batch' = <<>> /\ idx' = 1 /\ stats' = ZeroStats /\ outcome' = "none"
    /\ iocs_before' = {}
    /\ UNCHANGED <<iocs, logs, disk_iocs, disk_logs, now, used, observed, disk_observed,
                   returned>>
    /\ UNCHANGED norm_vars

\* Some caller calls run_collection.
StartCycle ==
    /\ run_collection_starts
    /\ UNCHANGED sched_vars

\* One fetch of run_collection with its try block (lines 32-78), the feed
\* answering with one of resps; at is where run_collection stands before it.
FetchStep(at, resps) ==
    /\ pc = at /\ ~all_feeds_fetched(feed_i)
    /\ \E resp \in resps, t \in Later(now) :
       LET feed == Feeds[feed_i]
           c == collect(all_iocs, collection_errors, feed, fetch(feed, resp, t))
       IN  /\ all_iocs' = c.all_iocs
           /\ collection_errors' = c.errors
           /\ feed_out' = Append(feed_out, resp)
           /\ used' = used + Len(resp.entries)
           /\ now' = IF resp.entries # <<>> THEN t ELSE now
    /\ feed_i' = feed_i + 1
    /\ pc' = "fetch"
    /\ UNCHANGED <<iocs, logs, disk_iocs, disk_logs, caller, batch, idx, stats,
                   outcome, result, iocs_before, observed, disk_observed>>
    /\ UNCHANGED norm_vars
    /\ UNCHANGED sched_vars
    /\ UNCHANGED returned

\* The next fetch, the feed answering well-formed entries or failing.
FetchFeed == FetchStep("fetch", Responses(MaxRecords - used))

\* The next fetch, the feed answering entries of any kind or failing.
FetchAny == FetchStep("fetch", RawResponses(MaxRecords - used))

\* The next fetch, the feed answering a value in one of its spellings or failing.
FetchSameForm == FetchStep("fetch", SameFormResponses(MaxRecords - used))

\* session.get sends the request and waits for the answer (lines 33, 67, 93).
\* No timeout is passed, and requests does not read the attribute timeout
\* that line 19 sets on the session: the wait ends only when the feed answers
\* or the connection fails.
SendRequest ==
    /\ pc = "fetch" /\ ~all_feeds_fetched(feed_i)
    /\ pc' = "waiting"
    /\ UNCHANGED <<iocs, logs, disk_iocs, disk_logs, now, caller, batch, idx, stats,
                   outcome, used, iocs_before, observed, disk_observed>>
    /\ UNCHANGED cycle_vars
    /\ UNCHANGED norm_vars
    /\ UNCHANGED sched_vars
    /\ UNCHANGED returned

\* The feed answers, or the connection fails, and the fetch goes on.
ReceiveResponse == FetchStep("waiting", Responses(MaxRecords - used))

\* if all_iocs: call insert_or_update_iocs (lines 81-82); else return "no_data"
\* (lines 95-104).
EndFetch ==
    /\ pc = "fetch" /\ all_feeds_fetched(feed_i)
    /\ IF has_items(all_iocs)
       THEN /\ pc' = "upsert"
            /\ batch' = all_iocs /\ idx' = 1 /\ stats' = ZeroStats /\ outcome' = "none"
            /\ result' = result /\ iocs_before' = iocs
       ELSE /\ pc' = "idle"
            /\ result' = [status |-> "no_data", stats |-> ZeroStats,
                          errors |-> collection_errors, total_collected |-> 0]
            /\ UNCHANGED <<batch, idx, stats, outcome, iocs_before>>
    /\ UNCHANGED <<caller, iocs, logs, disk_iocs, disk_logs, now, used, observed, disk_observed>>
    /\ UNCHANGED <<feed_i, feed_out, all_iocs, collection_errors>>
    /\ UNCHANGED norm_vars
    /\ UNCHANGED sched_vars
    /\ UNCHANGED returned

\* log_collection with its commit, and the return of "success" (lines 83-94).
LogRun ==
    /\ pc = "log"
    /\ \E t \in Later(now) :
       LET error_summary == IF collection_errors # <<>>
                            THEN Str(join(collection_errors)) ELSE None
       IN  /\ logs' = log_collection(logs, "CTI_Collector", stats, error_summary, t)
           /\ now' = t
    /\ disk_logs' = logs' /\ disk_iocs' = iocs /\ disk_observed' = observed
    /\ result' = [status |-> "success", stats |-> stats,
                  errors |-> collection_errors, total_collected |-> Len(all_iocs)]
    /\ pc' = "idle"
    /\ UNCHANGED <<iocs, caller, batch, idx, stats, outcome, used, iocs_before, observed>>
    /\ UNCHANGED <<feed_i, feed_out, all_iocs, collection_errors>>
    /\ UNCHANGED norm_vars
    /\ UNCHANGED sched_vars
    /\ UNCHANGED returned

\* The process dies while an operation runs.  Its locals are gone (the model
\* keeps batch, idx and stats to tell how far the pass had come); what a
\* restart or another connection sees is the committed database.
Crash ==
    /\ pc \in {"fetch", "upsert", "log"}
    /\ pc' = "crashed"
    /\ iocs' = disk_iocs /\ logs' = disk_logs /\ observed' = disk_observed
    /\ feed_i' = 1 /\ feed_out' = <<>> /\ all_iocs' = <<>> /\ collection_errors' = <<>>
    /\ result' = NoResult
    /\ iocs_before' = {}
    /\ UNCHANGED <<disk_iocs, disk_logs, now, caller, batch, idx, stats, outcome, used,
                   disk_observed>>
    /\ UNCHANGED norm_vars
    /\ UNCHANGED sched_vars
    /\ UNCHANGED returned

\* A call that hands control back at once, the callee running on its own.
returns_at_once(p) == TRUE

\* run_collection is called in the thread of start_scheduling, by line 115
\* and by schedule's run_pending (line 130): the caller goes on when the
\* call has returned.
call_returned(p) == p = "idle"

\* start_scheduling registers the daily job and runs the initial collection
\* (lines 111-115).
RunInitial ==
    /\ sched = "off"
    /\ run_collection_starts
    /\ sched' = "initial" /\ due' = FALSE

\* The initial collection has returned; the loop starts (lines 118-129).
InitialReturns ==
    /\ sched = "initial" /\ call_returned(pc)
    /\ sched' = "loop"
    /\ UNCHANGED due
    /\ UNCHANGED <<now, store_vars, cycle_vars, norm_vars>>

\* The clock reaches 09:00: the job is due, wherever the program stands.
JobFallsDue ==
    /\ sched \in {"initial", "loop", "job"} /\ ~due
    /\ due' = TRUE
    /\ UNCHANGED sched
    /\ UNCHANGED <<now, store_vars, cycle_vars, norm_vars>>

\* schedule.run_pending() finds the job due and calls run_collection (line 130).
RunPending ==
    /\ sched = "loop" /\ due
    /\ run_collection_starts
    /\ sched' = "job"
    /\ UNCHANGED due

\* The job has returned: schedule sets its next run time and the loop goes
\* on with its sleep (lines 130-131).
JobReturns ==
    /\ sched = "job" /\ call_returned(pc)
    /\ sched' = "loop" /\ due' = FALSE
    /\ UNCHANGED <<now, store_vars, cycle_vars, norm_vars>>

\* KeyboardInterrupt in the loop: stop_scheduling (lines 132-135).
StopScheduling ==
    /\ sched = "loop"
    /\ sched' = "stopped"
    /\ UNCHANGED due
    /\ UNCHANGED <<now, store_vars, cycle_vars, norm_vars>>

\* The texts a caller may pass to log_collection as errors.
ErrorSummaries == {None, Str(<<>>), Str(<<"OTX collection failed: ", "e">>)}

\* A caller calls log_collection (lines 166-178), which commits.
CallLogCollection ==
    /\ pc = "idle" /\ used < MaxRecords
    /\ \E errors \in ErrorSummaries, st \in {ZeroStats, stats}, t \in Later(now) :
          /\ logs' = log_collection(logs, "CTI_Collector", st, errors, t)
          /\ now' = t
    /\ disk_logs' = logs' /\ disk_iocs' = iocs /\ disk_observed' = observed
    /\ used' = used + 1
    /\ UNCHANGED <<iocs, pc, caller, batch, idx, stats, outcome, iocs_before, observed>>
    /\ UNCHANGED cycle_vars
    /\ UNCHANGED norm_vars
    /\ UNCHANGED sched_vars
    /\ UNCHANGED returned

\* A caller calls detect_type (lines 58-75).
CallDetectType ==
    /\ \E value \in RawInputs :
          /\ last_raw' = value
          /\ last_detected' = detected_as[value]
    /\ last_normalized' = NoRecord
    /\ UNCHANGED now
    /\ UNCHANGED store_vars
    /\ UNCHANGED cycle_vars
    /\ UNCHANGED sched_vars

\* A caller calls normalize_ioc (lines 102-117).
CallNormalizeIoc ==
    /\ \E raw \in RawInputs, t \in Later(now) :
          /\ last_raw' = raw
          /\ last_normalized' = normalize_ioc(raw, "OTX", "high", "medium", MISSING, t)
          /\ now' = t
    /\ last_detected' = "none"
    /\ UNCHANGED store_vars
    /\ UNCHANGED cycle_vars
    /\ UNCHANGED sched_vars

\* The store driven by direct calls of insert_or_update_iocs.
Next ==
    \/ CallUpsert
    \/ UpsertRecord
    \/ CommitReturn
    \/ Crash

Spec == Init /\ [][Next]_vars

\* The store driven by collection cycles.
CycleNext ==
    \/ StartCycle
    \/ FetchFeed
    \/ EndFetch
    \/ UpsertRecord
    \/ CommitReturn
    \/ LogRun
    \/ Crash

CycleSpec == Init /\ [][CycleNext]_vars

\* Collection cycles over feeds that answer entries of any kind.
FeedNext ==
    \/ StartCycle
    \/ FetchAny
    \/ EndFetch
    \/ UpsertRecord
    \/ CommitReturn
    \/ LogRun

FeedSpec == Init /\ [][FeedNext]_vars

\* Direct calls of the store's two writers.
LogNext ==
    \/ CallUpsert
    \/ UpsertRecord
    \/ CommitReturn
    \/ CallLogCollection

LogSpec == Init /\ [][LogNext]_vars

\* Direct calls of the normalizer.
NormNext ==
    \/ CallDetectType
    \/ CallNormalizeIoc

NormSpec == Init /\ [][NormNext]_vars

\* Collection cycles whose fetches wait for the feed's answer.  Every step
\* of run_collection is taken when it can be; when a feed answers is not the
\* program's to decide.
LiveNext ==
    \/ StartCycle
    \/ SendRequest
    \/ ReceiveResponse
    \/ EndFetch
    \/ UpsertRecord
    \/ CommitReturn
    \/ LogRun

LiveSpec ==
    /\ Init /\ [][LiveNext]_vars
    /\ WF_vars(SendRequest) /\ WF_vars(EndFetch) /\ WF_vars(UpsertRecord)
    /\ WF_vars(CommitReturn) /\ WF_vars(LogRun)

\* Collection cycles over feeds that answer the same values in other spellings.
SameFormNext ==
    \/ StartCycle
    \/ FetchSameForm
    \/ EndFetch
    \/ UpsertRecord
    \/ CommitReturn
    \/ LogRun

SameFormSpec == Init /\ [][SameFormNext]_vars

\* start_scheduling: the initial collection and the daily ones.
SchedNext ==
    \/ RunInitial
    \/ InitialReturns
    \/ JobFallsDue
    \/ RunPending
    \/ JobReturns
    \/ StopScheduling
    \/ FetchFeed
    \/ EndFetch
    \/ UpsertRecord
    \/ CommitReturn
    \/ LogRun

SchedSpec == Init /\ [][SchedNext]_vars

-----------------------------------------------------------------------------
(* Properties of the store *)

\* datetime.fromisoformat on the texts isoformat produces.
fromisoformat(s) == CHOOSE t \in Times : isoformat(t) = s

RowsOf(tbl, ind, typ) == {r \in tbl : r.indicator = ind /\ r.type = typ}

\* A record that has its keys, whose indicator sqlite3 can bind and whose
\* metadata json can serialize.
WellFormed(ioc) ==
    /\ ioc.indicator # MISSING_TEXT /\ encodable(ioc.indicator)
    /\ Serializable(Get(ioc, "metadata", "{}"))

\* The step is one iteration of the loop of insert_or_update_iocs.
RecordStep == pc = "upsert" /\ idx <= Len(batch) /\ stats'.processed = stats.processed + 1

\* The rows of tbl other than those of ioc's key.
OtherRows(tbl, ioc) == tbl \ RowsOf(tbl, ioc.indicator, ioc.type)

TableInvariant(tbl) ==
    /\ \A r \in tbl :
          /\ TimeLeq(fromisoformat(r.first_seen), fromisoformat(r.last_seen))
          /\ r.seen_count >= 1
    /\ \A r, q \in tbl : r.indicator = q.indicator /\ r.type = q.type => r = q

\* C1: in the connection's view and in the committed database alike, every
\* row has first_seen <= last_seen (as instants) and seen_count >= 1, and no
\* two rows have the same (indicator, type).
C1_StoreInvariant == TableInvariant(iocs) /\ TableInvariant(disk_iocs)

\* A committed store with two rows, one of them seen more than once with
\* first_seen earlier than last_seen.
C1_Witness ==
    /\ Cardinality(disk_iocs) = 2
    /\ \E r \in disk_iocs : r.seen_count >= 2 /\ r.first_seen # r.last_seen

C2_Step ==
    RecordStep /\ WellFormed(batch[idx]) =>
        LET ioc == batch[idx]
            old == RowsOf(iocs, ioc.indicator, ioc.type)
            new == RowsOf(iocs', ioc.indicator, ioc.type)
        IN  /\ Cardinality(new) = 1
            /\ \A q \in new :
                  IF old = {} THEN q.seen_count = 1
                  ELSE \A r \in old : q.seen_count = r.seen_count + 1
            /\ \A r \in OtherRows(iocs, ioc) :
                  \E q \in OtherRows(iocs', ioc) :
                     q.indicator = r.indicator /\ q.type = r.type
                     /\ q.seen_count = r.seen_count

C2_Example ==
    (/\ outcome = "returned" /\ Len(batch) = 2
     /\ WellFormed(batch[1]) /\ WellFormed(batch[2])
     /\ batch[1].indicator = batch[2].indicator /\ batch[1].type = batch[2].type
     /\ RowsOf(iocs_before, batch[1].indicator, batch[1].type) = {})
    => /\ stats.new = 1 /\ stats.updated = 1
       /\ \E r \in iocs : r.indicator = batch[1].indicator /\ r.type = batch[1].type
       /\ \A r \in RowsOf(iocs, batch[1].indicator, batch[1].type) : r.seen_count = 2

\* C2: a well-formed record whose key has no row creates one with
\* seen_count = 1; one whose key has a row raises that row's seen_count by
\* exactly 1, whatever its timestamp, and leaves the other rows' counts alone;
\* and a returned batch of two well-formed records with one key that had no
\* row gives new = 1, updated = 1 and seen_count = 2.
C2_SeenCount == [][C2_Step /\ C2_Example']_vars

\* A row was updated by an observation older than its last_seen, and counts 2.
C2_Witness ==
    /\ outcome = "returned" /\ Len(batch) = 2
    /\ batch[1].indicator = batch[2].indicator /\ batch[1].type = batch[2].type
    /\ str_lt(batch[2].date_collected, batch[1].date_collected)
    /\ stats.new = 1 /\ stats.updated = 1
    /\ \E r \in iocs : r.indicator = batch[1].indicator /\ r.seen_count = 2

\* The instants of the observations written for a key.
ObservedTimes(obs, ind, typ) == {t \in Times : <<ind, typ, isoformat(t)>> \in obs}

LastSeenIsMax(tbl, obs) ==
    \A r \in tbl :
       /\ ObservedTimes(obs, r.indicator, r.type) # {}
       /\ r.last_seen = isoformat(MaxTime(ObservedTimes(obs, r.indicator, r.type)))

C3_Step ==
    RecordStep =>
        \A r \in iocs : \E q \in iocs' :
           /\ q.indicator = r.indicator /\ q.type = r.type
           /\ TimeLeq(fromisoformat(r.last_seen), fromisoformat(q.last_seen))

\* C3: no iteration of the loop lowers a row's last_seen, and every row's
\* last_seen is the text of the latest instant among the observations written
\* for its key (in the connection's view and in the committed database).
C3_LastSeen ==
    [][C3_Step /\ LastSeenIsMax(iocs', observed') /\ LastSeenIsMax(disk_iocs', disk_observed')]_vars

\* A row seen three times whose last_seen is that of the second observation:
\* the third one was older.
C3_Witness ==
    /\ pc = "upsert" /\ idx = 4
    /\ batch[1].indicator = batch[2].indicator /\ batch[2].indicator = batch[3].indicator
    /\ str_lt(batch[1].date_collected, batch[2].date_collected)
    /\ str_lt(batch[3].date_collected, batch[2].date_collected)
    /\ \E r \in iocs : r.seen_count = 3 /\ r.last_seen = batch[2].date_collected

C4_Step ==
    RecordStep =>
        LET ioc == batch[idx]
        IN  /\ \A r \in iocs : \E q \in iocs' :
                  /\ q.indicator = r.indicator /\ q.type = r.type
                  /\ q.first_seen = r.first_seen /\ q.created_at = r.created_at
            /\ Cardinality(iocs') <= Cardinality(iocs) + 1
            /\ \A q \in iocs' :
                  RowsOf(iocs, q.indicator, q.type) = {} =>
                     /\ q.indicator = ioc.indicator /\ q.type = ioc.type
                     /\ q.first_seen = ioc.date_collected

\* C4: an iteration of the loop keeps every existing row's indicator, type,
\* first_seen and created_at, and a row it creates has the first_seen of the
\* record that created it.
C4_Immutable == [][C4_Step]_vars

\* A row whose key was later observed with a timestamp before its first_seen.
C4_Witness ==
    \E r \in iocs :
       \E t \in ObservedTimes(observed, r.indicator, r.type) :
          str_lt(isoformat(t), r.first_seen)

C5_Step ==
    RecordStep =>
        LET ioc == batch[idx]
            old == RowsOf(iocs, ioc.indicator, ioc.type)
        IN  /\ WellFormed(ioc) /\ old # {} =>
                 \A q \in RowsOf(iocs', ioc.indicator, ioc.type) :
                    /\ q.source = ioc.source
                    /\ q.confidence = Get(ioc, "confidence", "medium")
                    /\ q.threat_level = Get(ioc, "threat_level", "medium")
                    /\ json_loads(q.metadata) = Get(ioc, "metadata", "{}")
            /\ WellFormed(ioc) => OtherRows(iocs', ioc) = OtherRows(iocs, ioc)
            /\ ~WellFormed(ioc) => iocs' = iocs

\* C5: an update stores the source, confidence, threat_level and metadata of
\* the record just processed, whatever its timestamp; no iteration changes the
\* row of another key, and a record that fails changes no row.
C5_LastWriteWins == [][C5_Step]_vars

\* A row seen twice whose source is that of an observation older than last_seen.
C5_Witness ==
    \E r \in iocs :
       /\ r.seen_count = 2 /\ r.source = "TestFeed" /\ r.confidence = "medium"
       /\ r.last_seen = isoformat(<<1, 0>>)

\* C6: no exception of a record leaves insert_or_update_iocs: every call
\* returns, with every record of the batch processed.
C6_NoAbort ==
    /\ outcome # "raised"
    /\ outcome = "returned" => stats.processed = Len(batch)

\* C7: on return, processed is the length of the batch and the sum of new,
\* updated and errors.
C7_Counted ==
    outcome = "returned" =>
        /\ stats.processed = Len(batch)
        /\ stats.processed = stats.new + stats.updated + stats.errors

\* A returned batch with a created, an updated and a failed record.
C7_Witness ==
    /\ outcome = "returned" /\ Len(batch) = 3
    /\ stats.new = 1 /\ stats.updated = 1 /\ stats.errors = 1

\* C8 as stated: what is persisted when the process dies between two records
\* is what the connection had written up to then.
C8_DurablePerRecord ==
    [][pc = "upsert" /\ 1 < idx /\ idx <= Len(batch) /\ pc' = "crashed" => iocs' = iocs]_vars

\* C8 amended: while a batch is processed the committed database does not
\* change; it changes at the commit after the last record, to the
\* connection's view, and a crash before that shows the database as it was
\* committed before.
C8_DurableAtCommit ==
    [][pc = "upsert" =>
          \/ /\ disk_iocs' = disk_iocs
             /\ pc' = "crashed" => iocs' = disk_iocs
          \/ /\ idx > Len(batch) /\ outcome' = "returned"
             /\ disk_iocs' = iocs /\ iocs' = iocs]_vars

\* The process died after a record that created a row, and the database a
\* restart sees has no row.
C8_Witness ==
    /\ pc = "crashed" /\ caller = "direct"
    /\ 1 < idx /\ idx <= Len(batch) /\ stats.new >= 1 /\ iocs = {}

-----------------------------------------------------------------------------
(* Properties of the collection cycle *)

\* run_collection has returned.
CycleDone == pc = "idle" /\ result.status \in {"success", "no_data"}

\* The entries a fetcher makes records of.
Obtained(feed, resp) ==
    IF ~resp.ok THEN <<>>
    ELSE IF feed.fetcher = "OTX" THEN otx_urls(resp.entries)
    ELSE IF feed.fetcher = "MalwareBazaar"
         THEN malwarebazaar_hashes(resp.entries, MALWAREBazaar_LIMIT)
    ELSE resp.entries

\* The keys of the items obtained from the first n feeds, in fetch order.
RECURSIVE FetchedKeys(_, _)
FetchedKeys(fo, n) ==
    IF n = 0 THEN <<>>
    ELSE LET items == Obtained(Feeds[n], fo[n])
         IN  FetchedKeys(fo, n - 1)
             \o [i \in 1..Len(items) |->
                    <<normalized_as[items[i].raw],
                      detected_as[normalized_as[items[i].raw]]>>]

\* C9: no cycle ends with an exception, and when run_collection has returned
\* every feed was fetched, the batch given to insert_or_update_iocs held, in
\* order, every entry of the feeds that answered, all of it was processed, and
\* each entry's key has a committed row.
C9_FeedFailureIsolated ==
    /\ result.status # "raised"
    /\ CycleDone =>
          LET ks == FetchedKeys(feed_out, Len(feed_out))
          IN  /\ Len(feed_out) = Len(Feeds)
              /\ ks # <<>> =>
                    /\ result.status = "success" /\ outcome = "returned"
                    /\ Len(batch) = Len(ks) /\ stats.processed = Len(ks)
                    /\ \A i \in 1..Len(ks) :
                          <<batch[i].indicator, batch[i].type>> = ks[i]
              /\ \A i \in 1..Len(ks) :
                    RowsOf(disk_iocs, ks[i][1], ks[i][2]) # {}

\* A returned cycle in which a feed failed, a later feed answered with
\* entries, and a row of the last feed's entry is committed.
C9_Witness ==
    /\ CycleDone /\ result.status = "success"
    /\ \E i, j \in 1..Len(feed_out) :
          /\ i < j /\ ~feed_out[i].ok /\ Obtained(Feeds[j], feed_out[j]) # <<>>
          /\ \E r \in disk_iocs : r.source = Feeds[j].fetcher

\* C10: when a feed failed in a returned cycle, the result's errors are not
\* empty, and the log row of a cycle that stored something has status "error"
\* and the joined error strings.
C10_FailureReported ==
    CycleDone /\ (\E i \in 1..Len(feed_out) : ~feed_out[i].ok) =>
        /\ result.errors # <<>>
        /\ result.status = "success" =>
              /\ logs # <<>>
              /\ logs[Len(logs)].status = "error"
              /\ logs[Len(logs)].errors = Str(join(result.errors))

\* C11: when run_collection has returned, its status is "no_data" exactly
\* when the feeds yielded no item (all_iocs is empty) and "success" exactly
\* when they yielded one, with total_collected the number of items, whatever
\* the number of feeds that failed and of records that failed in the store.
C11_StatusByData ==
    CycleDone =>
        /\ result.status = "no_data" <=> all_iocs = <<>>
        /\ result.status = "success" <=> all_iocs # <<>>
        /\ Len(all_iocs) = Len(FetchedKeys(feed_out, Len(feed_out)))
        /\ result.total_collected = Len(all_iocs)

\* A returned cycle with status "success" in which a feed failed and every
\* record of the batch failed in the store.
C11_Witness ==
    /\ CycleDone /\ result.status = "success"
    /\ \E i \in 1..Len(feed_out) : ~feed_out[i].ok
    /\ batch # <<>> /\ stats.errors = Len(batch)

\* run_collection returns in this step.
CycleReturns ==
    /\ caller = "cycle" /\ pc \in {"fetch", "upsert", "log"}
    /\ pc' = "idle" /\ result'.status \in {"success", "no_data"}

\* C12: every run_collection appends exactly one row to collection_logs: the
\* steps before its return leave the table alone and, at the latest, the step
\* of the return has appended one row; a cycle without items returns
\* "no_data" with zero stats, its row having zero counts and status "success".
C12_OneLogPerCycle ==
    [][/\ CycleReturns =>
             /\ Len(logs') = Len(logs) + 1
             /\ SubSeq(logs', 1, Len(logs)) = logs
             /\ result'.status = "no_data" =>
                    /\ result'.stats = ZeroStats
                    /\ logs'[Len(logs')].iocs_processed = 0
                    /\ logs'[Len(logs')].iocs_new = 0
                    /\ logs'[Len(logs')].iocs_updated = 0
                    /\ logs'[Len(logs')].status = "success"
       /\ (caller = "cycle" /\ pc \in {"fetch", "upsert"} /\ ~CycleReturns) =>
             (logs' = logs \/ pc' = "crashed")]_vars

\* C13: no exception leaves run_collection, whatever feeds fail and whatever
\* records the store rejects: insert_or_update_iocs returns with every record
\* of the batch counted, and the cycle ends with a result.
C13_NoExceptionEscapes ==
    /\ outcome # "raised"
    /\ (caller = "cycle" /\ pc = "idle") =>
          /\ result.status \in {"success", "no_data"}
          /\ result.status = "success" =>
                /\ outcome = "returned"
                /\ result.stats.processed = Len(all_iocs)
                /\ result.stats.new + result.stats.updated + result.stats.errors
                      = Len(all_iocs)

\* A returned cycle in which a feed failed, the store rejected a record and
\* created a row for another.
C13_Witness ==
    /\ CycleDone
    /\ \E i \in 1..Len(feed_out) : ~feed_out[i].ok
    /\ result.stats.errors >= 1 /\ result.stats.new >= 1

\* C14: every started cycle eventually finishes and the scheduler is idle
\* again; no fetch can wait for its feed for ever.
C14_CycleTerminates == (caller = "cycle" /\ pc # "idle") ~> (pc = "idle")

\* C15: a call of log_collection appends exactly one row to collection_logs,
\* leaves the rows already there and every iocs row as they were, and gives
\* the new row the status "error" exactly when the error summary passed in
\* is a non-empty text; None and the empty text give "success".
C15_LogAppendsOne ==
    [][logs' # logs =>
          /\ Len(logs') = Len(logs) + 1
          /\ SubSeq(logs', 1, Len(logs)) = logs
          /\ iocs' = iocs
          /\ LET row == logs'[Len(logs')] IN
                /\ row.status \in {"success", "error"}
                /\ row.status = "error" <=> (~row.errors.none /\ Len(row.errors.text) > 0)
                /\ row.collection_time = isoformat(now')]_vars

C15_Witness ==
    /\ Len(logs) >= 2 /\ iocs # {}
    /\ logs[Len(logs)].errors = Str(<<>>) /\ logs[Len(logs)].status = "success"
    /\ \E i \in 1..Len(logs) : logs[i].status = "error"

\* C16: a collection cycle never stores a record whose indicator, type or
\* source is empty: validate_ioc accepts only records with all three fields
\* non-empty, and every record handed to insert_or_update_iocs passes it.
NonEmptyFields(r) == r.indicator # <<>> /\ r.type # "" /\ r.source # ""

C16_NoEmptyFieldStored ==
    /\ \A r \in iocs : NonEmptyFields(r)
    /\ (caller = "cycle" /\ pc = "upsert") =>
          \A i \in 1..Len(batch) : validate_ioc(batch[i]) /\ NonEmptyFields(batch[i])

\* C17: the canonical form of an indicator of type Email or Unknown is the
\* stripped raw value with its letter case unchanged; "User@Example.COM"
\* keeps its case.
C17_EmailUnknownKeepCase ==
    last_normalized.type \in {"Email", "Unknown"} =>
        last_normalized.indicator = strip(last_raw)

\* "all characters of v are decimal digits"
AllDigits(v) == \A i \in 1..Len(v) : isdigit(v[i])

\* C18: detect_type answers with the first rule that matches, in the order
\* IP, Hash, URL, Email, Domain, and with Unknown when no rule matches or the
\* value is empty or white space only; a value of 32, 40 or 64 decimal digits
\* is a Hash.
C18_FirstMatchWins ==
    last_detected # "none" =>
        /\ last_detected = "IP" <=> is_ip(last_raw)
        /\ last_detected = "Hash" <=> (~is_ip(last_raw) /\ is_hash(last_raw))
        /\ last_detected = "URL" <=>
               (~is_ip(last_raw) /\ ~is_hash(last_raw) /\ is_url(last_raw))
        /\ last_detected = "Email" <=>
               /\ ~is_ip(last_raw) /\ ~is_hash(last_raw) /\ ~is_url(last_raw)
               /\ is_email(last_raw)
        /\ last_detected = "Domain" <=>
               /\ ~is_ip(last_raw) /\ ~is_hash(last_raw) /\ ~is_url(last_raw)
               /\ ~is_email(last_raw) /\ is_domain(last_raw)
        /\ last_detected = "Unknown" <=>
               /\ ~is_ip(last_raw) /\ ~is_hash(last_raw) /\ ~is_url(last_raw)
               /\ ~is_email(last_raw) /\ ~is_domain(last_raw)
        /\ strip(last_raw) = <<>> => last_detected = "Unknown"
        /\ (Len(strip(last_raw)) \in {32, 40, 64} /\ AllDigits(strip(last_raw))) =>
               last_detected = "Hash"

\* An email address, which the Domain rule matches too, detected as Email.
C18_Witness ==
    /\ last_detected = "Email" /\ is_email(last_raw) /\ is_domain(last_raw)
    /\ last_raw # strip(last_raw)

\* C19: the type of a normalized record is detect_type of the record's
\* canonical indicator, not of the stripped raw value: the raw value
\* "HTTP://Example.COM/Path" gives "http://example.com/path" of type URL.
C19_TypeOfCanonical ==
    last_normalized # NoRecord =>
        /\ last_normalized.indicator = normalize_indicator(last_raw)
        /\ last_normalized.type = detect_type(last_normalized.indicator)
        /\ strip(last_raw) = UpperCaseUrl =>
               /\ last_normalized.indicator = LowerCaseUrl
               /\ last_normalized.type = "URL"

C19_Witness ==
    /\ strip(last_raw) = UpperCaseUrl /\ last_normalized.type = "URL"
    /\ detect_type(strip(last_raw)) = "Domain"

\* C20: within one cycle the store is written only after every fetch of the
\* cycle has finished: the fetches leave iocs alone and gather their items in
\* all_iocs, and insert_or_update_iocs is called at most once per cycle, after
\* the last fetch, with the whole of all_iocs.
C20_StoreAfterFetches ==
    [][caller = "cycle" =>
          /\ (pc = "fetch" /\ pc' # "crashed") =>
                 (iocs' = iocs /\ disk_iocs' = disk_iocs)
          /\ (pc # "upsert" /\ pc' = "upsert") =>
                 /\ pc = "fetch" /\ Len(feed_out) = Len(Feeds)
                 /\ batch' = all_iocs /\ idx' = 1 /\ iocs' = iocs
          /\ (pc = "upsert" /\ pc' = "upsert") =>
                 (batch' = batch /\ all_iocs' = all_iocs /\ feed_out' = feed_out)
          /\ pc \in {"upsert", "log"} => pc' \in {"upsert", "log", "idle", "crashed"}
          /\ pc = "log" => pc' # "upsert"]_vars

\* The store being written in a cycle whose batch holds items of two feeds.
C20_Witness ==
    /\ caller = "cycle" /\ pc = "upsert" /\ idx > 1 /\ iocs # iocs_before
    /\ \E i, j \in 1..Len(batch) : batch[i].source # batch[j].source

\* C21: collection cycles never overlap: while a run_collection started by
\* start_scheduling is running, start_scheduling stands inside that call, so
\* it starts the next one only after this one has returned, and no second
\* insert_or_update_iocs pass can be active.
CycleActive == caller = "cycle" /\ pc \in {"fetch", "upsert", "log"}

C21_CyclesNeverOverlap ==
    /\ CycleActive => sched \in {"initial", "job"}
    /\ sched \in {"off", "loop", "stopped"} => pc = "idle"

\* A daily job writing to the store while the clock has reached 09:00 again.
C21_Witness ==
    /\ sched = "job" /\ due /\ pc = "upsert" /\ idx > 1
    /\ iocs # iocs_before /\ iocs_before # {}

\* The sum of seen_count over the rows of a table.
RECURSIVE SumSeenCount(_)
SumSeenCount(tbl) ==
    IF tbl = {} THEN 0
    ELSE LET r == CHOOSE x \in tbl : TRUE
         IN  r.seen_count + SumSeenCount(tbl \ {r})

\* C22: conservation over any sequence of insert_or_update_iocs calls on a
\* store that was empty: between calls the number of stored records is the
\* sum of the new counts returned so far, and the sum of seen_count over the
\* stored records is the sum of the new and updated counts returned so far.
C22_Conservation ==
    pc = "idle" =>
        /\ Cardinality(iocs) = returned.new
        /\ SumSeenCount(iocs) = returned.new + returned.updated

\* C23: a record whose upsert raises an exception leaves the store as it
\* was: no row is inserted, the row of its key, if there is one, keeps all
\* its fields, and neither new nor updated is incremented for it.
RecordRaises ==
    /\ pc = "upsert" /\ idx <= Len(batch) /\ pc' # "crashed"
    /\ \/ raises_on_select(batch[idx])
       \/ raises_on_write(batch[idx])
       \/ stats'.errors > stats.errors

C23_FailedRecordNoEffect ==
    [][RecordRaises =>
          /\ iocs' = iocs /\ disk_iocs' = disk_iocs
          /\ stats'.new = stats.new /\ stats'.updated = stats.updated
          /\ stats'.errors = stats.errors + 1
          /\ stats'.processed = stats.processed + 1]_vars

\* A record json cannot serialize has met the row of its key, written
\* earlier in the same batch, and was counted as an error.
C23_Witness ==
    /\ pc = "upsert" /\ idx > 2 /\ stats.errors >= 1
    /\ raises_on_write(batch[idx - 1]) /\ ~raises_on_select(batch[idx - 1])
    /\ \E r \in iocs :
          /\ r.indicator = batch[idx - 1].indicator /\ r.type = batch[idx - 1].type
          /\ r.seen_count >= 1

\* How many of keys have the indicator ind.
CountOf(keys, ind) == Cardinality({i \in 1..Len(keys) : keys[i][1] = ind})

\* seen_count of the row of ind in tbl, 0 when there is none.
SeenBefore(tbl, ind) ==
    IF \E r \in tbl : r.indicator = ind
    THEN (CHOOSE r \in tbl : r.indicator = ind).seen_count
    ELSE 0

\* C24: with every record made by normalize_ioc the indicator determines the
\* type: no two stored rows have the same indicator, every row's type is
\* detect_type of its indicator, and raw values with the same canonical form
\* are merged into one row, which counts each of them.
C24_IndicatorDeterminesType ==
    /\ \A r1, r2 \in iocs : r1.indicator = r2.indicator => r1 = r2
    /\ \A r \in iocs : r.type = detected_as[r.indicator]
    /\ (CycleDone /\ result.status = "success") =>
          \A r \in iocs :
              r.seen_count = SeenBefore(iocs_before, r.indicator)
                             + CountOf(FetchedKeys(feed_out, Len(feed_out)), r.indicator)

\* Two feeds answered the same value in different spellings in one cycle,
\* and its one row counts both.
C24_Witness ==
    /\ CycleDone /\ Len(feed_out) = Len(Feeds)
    /\ Obtained(Feeds[1], feed_out[1]) # <<>> /\ Obtained(Feeds[2], feed_out[2]) # <<>>
    /\ feed_out[1].entries[1].raw # feed_out[2].entries[1].raw
    /\ normalized_as[feed_out[1].entries[1].raw] = normalized_as[feed_out[2].entries[1].raw]
    /\ \E r \in disk_iocs :
          r.indicator = normalized_as[feed_out[1].entries[1].raw] /\ r.seen_count >= 2

=============================================================================
